---- MODULE Spec2Model ----
(***************************************************************************)
(* Model of the evaluation pipeline of ai-judge: the provider registry     *)
(* (app/lib/llm/client.ts), the provider adapters' output parsing          *)
(* (app/lib/llm/providers/*.ts), the evaluation executor                   *)
(* (app/lib/services/evaluation-executor.ts), the per-provider rate        *)
(* limiter and the evaluation orchestrator                                 *)
(* (app/lib/services/rate-limiter.ts).                                     *)
(*                                                                         *)
(* Strings are sequences of tokens (TLA+ strings); a token is an atomic    *)
(* run of characters.  What a token contains (keywords, a JSON member) is  *)
(* given by the tables below.  JavaScript values that need not be strings  *)
(* (fields of a parsed JSON object) are records [t, s]: t the JavaScript   *)
(* type and s the text String(v) gives.                                    *)
(***************************************************************************)
EXTENDS Integers, Sequences, FiniteSets, TLC

(***************************************************************************)
(* Bounds of the model.                                                    *)
(***************************************************************************)
\* longest raw model output, in tokens, the executor is checked on
MaxTextLen == 3
\* most members of a JSON object in a model output, and longest prose after it,
\* in tokens, the adapters' parsing is checked on
MaxObjectLen == 2
MaxProseLen == 2
\* longest judge instruction text, in tokens, the prompt builders are checked on
MaxInstructionLen == 2
\* number of judge edits (updateJudge) the environment makes during a behaviour
MaxEdits == 1
\* Concurrency limits.  The program's values are openai 50, anthropic 20,
\* gemini 30 and 5 for any other identifier (RATE_LIMITS); the model keeps
\* their roles and scales them down so that a limiter fills up with the few
\* tasks a behaviour has.
LimitOpenai == 2
LimitAnthropic == 1
LimitGemini == 2
LimitDefault == 1

(***************************************************************************)
(* JavaScript values and strings.                                          *)
(***************************************************************************)
Str(s) == [t |-> "string", s |-> s]
Num(n) == [t |-> "number", s |-> <<n>>]
Null == [t |-> "null", s |-> <<"null">>]
Arr(s) == [t |-> "array", s |-> s]

\* JavaScript truthiness: "", 0 and null are falsy
Truthy(v) ==
  CASE v.t = "string" -> v.s # <<>>
    [] v.t = "number" -> v.s # <<"0">>
    [] v.t = "null" -> FALSE
    [] OTHER -> TRUE

\* a || b
OrElse(a, b) == IF Truthy(a) THEN a ELSE b

Whitespace == {" ", "\n"}

\* s.trim().length === 0
IsBlank(s) == \A i \in 1..Len(s) : s[i] \in Whitespace

(***************************************************************************)
(* Tokens of a raw model output.                                           *)
(***************************************************************************)
\* the members a JSON object of the model output is made of
JsonMember ==
  [ vPass    |-> [k |-> "verdict",   v |-> Str(<<"pass">>)],
    vFail    |-> [k |-> "verdict",   v |-> Str(<<"fail">>)],
    vMaybe   |-> [k |-> "verdict",   v |-> Str(<<"maybe">>)],
    vNum     |-> [k |-> "verdict",   v |-> Num("1")],
    rText    |-> [k |-> "reasoning", v |-> Str(<<"Looks", " ", "correct">>)],
    rBlank   |-> [k |-> "reasoning", v |-> Str(<<" ">>)],
    rEmpty   |-> [k |-> "reasoning", v |-> Str(<<>>)],
    rNum     |-> [k |-> "reasoning", v |-> Num("5")] ]

MemberTokens == DOMAIN JsonMember

ProseTokens == {"Correct", "incorrect", "FAILED", "fine", " "}

Tokens == {"{", "}"} \cup MemberTokens \cup ProseTokens

\* the words a judge's instruction text is made of
InstructionTokens ==
  {"Grade", "strictly", "JSON", "Verdict", "response", "information", "ignore", " "}

\* String.prototype.toLowerCase, on a token
LowerToken(tok) ==
  CASE tok = "Correct" -> "correct"
    [] tok = "FAILED" -> "failed"
    [] tok = "Grade" -> "grade"
    [] tok = "JSON" -> "json"
    [] tok = "Verdict" -> "verdict"
    [] OTHER -> tok

toLowerCase(s) == [i \in 1..Len(s) |-> LowerToken(s[i])]

\* the keywords that occur in the characters of a (lower-case) token
KeywordsIn(tok) ==
  CASE tok = "correct" -> {"correct"}
    [] tok = "json" -> {"json"}
    [] tok = "verdict" -> {"verdict"}
    [] tok = "response" -> {"response"}
    [] tok = "information" -> {"format"}
    [] tok = "ignore" -> {"ignore"}
    [] tok = "incorrect" -> {"incorrect", "correct"}
    [] tok = "failed" -> {"fail"}
    [] tok = "vPass" -> {"pass"}
    [] tok = "vFail" -> {"fail"}
    [] tok = "rText" -> {"correct"}
    [] OTHER -> {}

\* String.prototype.includes, for a keyword
includes(s, kw) == \E i \in 1..Len(s) : kw \in KeywordsIn(s[i])

(***************************************************************************)
(* Provider adapters: parsing of the raw model output                      *)
(* (OpenAIProvider, AnthropicProvider and GeminiProvider share the code).  *)
(***************************************************************************)
Positions(s, tok) == {i \in 1..Len(s) : s[i] = tok}

Max(S) == CHOOSE x \in S : \A y \in S : y <= x
Min(S) == CHOOSE x \in S : \A y \in S : x <= y

\* text.match(/\{[\s\S]*\}/): from the first "{" to the last "}" after it
HasJsonMatch(text) ==
  /\ Positions(text, "{") # {}
  /\ Positions(text, "}") # {}
  /\ Min(Positions(text, "{")) < Max(Positions(text, "}"))

JsonMatch(text) ==
  SubSeq(text, Min(Positions(text, "{")), Max(Positions(text, "}")))

\* what lies between the outer braces of a match
Inner(m) == SubSeq(m, 2, Len(m) - 1)

\* JSON.parse succeeds when the braces enclose members (and white space) only
JsonParses(m) ==
  \A i \in 1..Len(Inner(m)) : Inner(m)[i] \in MemberTokens \cup Whitespace

\* parsed[key]: the last member with that key, undefined (Null here) if none
Field(m, key) ==
  LET at == {i \in 1..Len(Inner(m)) :
               /\ Inner(m)[i] \in MemberTokens
               /\ JsonMember[Inner(m)[i]].k = key}
  IN IF at = {} THEN Null ELSE JsonMember[Inner(m)[Max(at)]].v

\* the keyword fallback of parseEvaluationResult
KeywordVerdict(text) ==
  LET lowerText == toLowerCase(text)
  IN IF \/ includes(lowerText, "pass")
        \/ includes(lowerText, "correct")
        \/ includes(lowerText, "good")
     THEN "pass"
     ELSE IF \/ includes(lowerText, "fail")
             \/ includes(lowerText, "incorrect")
             \/ includes(lowerText, "bad")
          THEN "fail"
          ELSE "inconclusive"

parseEvaluationResult(text) ==
  IF HasJsonMatch(text)
  THEN IF JsonParses(JsonMatch(text))
       THEN [verdict   |-> OrElse(Field(JsonMatch(text), "verdict"), Str(<<"inconclusive">>)),
             reasoning |-> OrElse(Field(JsonMatch(text), "reasoning"), Str(text))]
       ELSE \* JSON.parse throws: the catch block
            [verdict |-> Str(<<"inconclusive">>), reasoning |-> Str(text)]
  ELSE [verdict |-> Str(<<KeywordVerdict(text)>>), reasoning |-> Str(text)]

\* what an adapter's evaluate gives back: a response with the parsed result, or
\* an Error wrapping the failure of the call
AdapterName(provider) ==
  CASE provider = "openai" -> "OpenAI"
    [] provider = "anthropic" -> "Anthropic"
    [] OTHER -> "Gemini"

evaluate(provider, outcome) ==
  IF outcome.kind = "text"
  THEN [threw |-> FALSE, result |-> parseEvaluationResult(outcome.text)]
  ELSE [threw |-> TRUE,
        message |-> <<AdapterName(provider), " evaluation failed: ", outcome.message>>]

(***************************************************************************)
(* Prompt builders.  The sources have two PromptBuilder classes: the one   *)
(* of prompt-builder.ts, which the executor imports, and a second one.     *)
(***************************************************************************)
\* getBaseEvaluationInstructions(): the fixed block, one token here
getBaseEvaluationInstructions == <<"You are an AI judge evaluating submissions. ...">>

\* PromptBuilder.buildSystemPrompt of prompt-builder.ts
buildSystemPrompt(judgeCustomPrompt) ==
  judgeCustomPrompt \o <<"\n\n">> \o getBaseEvaluationInstructions

\* buildSystemPrompt of the second PromptBuilder
hasCompleteInstructions(judgeCustomPrompt) ==
  LET lowerPrompt == toLowerCase(judgeCustomPrompt)
  IN \/ includes(lowerPrompt, "json")
     \/ includes(lowerPrompt, "verdict")
     \/ includes(lowerPrompt, "response")
     \/ includes(lowerPrompt, "format")
     \/ includes(lowerPrompt, "ignore")

buildSystemPromptUnlessComplete(judgeCustomPrompt) ==
  IF hasCompleteInstructions(judgeCustomPrompt)
  THEN judgeCustomPrompt
  ELSE judgeCustomPrompt \o <<"\n\n">> \o getBaseEvaluationInstructions

(***************************************************************************)
(* Provider registry (LLMClient).                                          *)
(***************************************************************************)
\* the providers map after the constructor ran with the environment env
initializeProviders(env) ==
  (IF "OPENAI_API_KEY" \in env THEN {"openai"} ELSE {})
  \cup (IF "ANTHROPIC_API_KEY" \in env THEN {"anthropic"} ELSE {})
  \cup (IF "GOOGLE_AI_API_KEY" \in env THEN {"gemini"} ELSE {})

\* getProvider: the adapter, or the Error it throws
getProviderUnchecked(providers, provider) ==
  [threw |-> FALSE, adapter |-> provider]

getProvider(providers, provider) ==
  IF provider \in providers
  THEN [threw |-> FALSE, adapter |-> provider]
  ELSE [threw |-> TRUE,
        message |-> <<"Provider ", provider, " is not configured or not available">>]

isProviderAvailable(providers, provider) == provider \in providers

\* the provider factory's table: the models it lists for each provider
PROVIDER_CONFIGS ==
  [openai    |-> {"gpt-4", "gpt-4-turbo", "gpt-3.5-turbo", "gpt-4o", "gpt-4o-mini"},
   anthropic |-> {"claude-3-5-sonnet-20241022", "claude-3-5-haiku-20241022",
                  "claude-3-opus-20240229"},
   gemini    |-> {"gemini-2.0-flash-exp", "gemini-1.5-pro", "gemini-1.5-flash",
                  "gemini-1.0-pro"}]

\* the factory's validateModel(provider, model)
validateModel(provider, model) ==
  IF provider \in DOMAIN PROVIDER_CONFIGS THEN model \in PROVIDER_CONFIGS[provider] ELSE FALSE

\* the factory's getAvailableProviders(), which LLMClient.getAvailableProviders returns
getAvailableProviders == DOMAIN PROVIDER_CONFIGS

\* LLMClient.validateProviderConfig
validateProviderConfig(provider, model) == validateModel(provider, model)

\* the validModels of the adapters' validateModel(model)
validModels(provider) ==
  CASE provider = "openai" ->
         {"gpt-4", "gpt-4-turbo", "gpt-4o", "gpt-4o-mini", "gpt-3.5-turbo"}
    [] provider = "anthropic" ->
         {"claude-3-5-sonnet-20241022", "claude-3-5-haiku-20241022", "claude-3-opus-20240229",
          "claude-3-sonnet-20240229", "claude-3-haiku-20240307"}
    [] provider = "gemini" ->
         {"gemini-2.0-flash-exp", "gemini-1.5-pro", "gemini-1.5-flash", "gemini-1.0-pro"}

\* OpenAIProvider, AnthropicProvider, GeminiProvider: validateModel(model)
AdapterValidateModel(provider, model) == model \in validModels(provider)

(***************************************************************************)
(* Evaluation executor.                                                    *)
(***************************************************************************)
validVerdicts == {<<"pass">>, <<"fail">>, <<"inconclusive">>}

\* parseEvaluationResponse: the validated result, or the TypeError of
\* result.reasoning.trim when the reasoning is no string
parseEvaluationResponseNoReasoningCheck(result) ==
  IF ~(result.verdict.t = "string" /\ result.verdict.s \in validVerdicts)
  THEN [threw |-> FALSE,
        result |-> [verdict |-> Str(<<"inconclusive">>),
                    reasoning |-> Str(<<"Invalid verdict received: ">> \o result.verdict.s
                                      \o <<". ">>
                                      \o (OrElse(result.reasoning,
                                                 Str(<<"No reasoning provided.">>))).s)]]
  ELSE [threw |-> FALSE, result |-> result]

parseEvaluationResponseKeepingVerdict(result) ==
  IF ~(result.verdict.t = "string" /\ result.verdict.s \in validVerdicts)
  THEN [threw |-> FALSE,
        result |-> [verdict |-> result.verdict,
                    reasoning |-> Str(<<"Invalid verdict received: ">> \o result.verdict.s
                                      \o <<". ">>
                                      \o (OrElse(result.reasoning,
                                                 Str(<<"No reasoning provided.">>))).s)]]
  ELSE IF ~Truthy(result.reasoning) \/ IsBlank(result.reasoning.s)
       THEN [threw |-> FALSE,
             result |-> [verdict |-> result.verdict,
                         reasoning |-> Str(<<"No detailed reasoning provided by the judge.">>)]]
       ELSE [threw |-> FALSE, result |-> result]

parseEvaluationResponse(result) ==
  IF ~(result.verdict.t = "string" /\ result.verdict.s \in validVerdicts)
  THEN [threw |-> FALSE,
        result |-> [verdict |-> Str(<<"inconclusive">>),
                    reasoning |-> Str(<<"Invalid verdict received: ">> \o result.verdict.s
                                      \o <<". ">>
                                      \o (OrElse(result.reasoning,
                                                 Str(<<"No reasoning provided.">>))).s)]]
  ELSE IF ~Truthy(result.reasoning)
       THEN [threw |-> FALSE,
             result |-> [verdict |-> result.verdict,
                         reasoning |-> Str(<<"No detailed reasoning provided by the judge.">>)]]
       ELSE IF result.reasoning.t # "string"
            THEN [threw |-> TRUE, message |-> <<"result.reasoning.trim is not a function">>]
            ELSE IF IsBlank(result.reasoning.s)
                 THEN [threw |-> FALSE,
                       result |-> [verdict |-> result.verdict,
                                   reasoning |->
                                     Str(<<"No detailed reasoning provided by the judge.">>)]]
                 ELSE [threw |-> FALSE, result |-> result]

\* the catch block of executeEvaluation
EvaluationFailed(message) ==
  [verdict |-> Str(<<"inconclusive">>),
   reasoning |-> Str(<<"Evaluation failed: ">> \o message)]

\* executeEvaluation from the return of provider.evaluate on
executeEvaluationAfterCall(provider, outcome) ==
  LET response == evaluate(provider, outcome)
  IN IF response.threw
     THEN EvaluationFailed(response.message)
     ELSE LET parsed == parseEvaluationResponse(response.result)
          IN IF parsed.threw THEN EvaluationFailed(parsed.message) ELSE parsed.result

(***************************************************************************)
(* Rate limiter.                                                           *)
(***************************************************************************)
\* RATE_LIMITS[provider] || 5
getRateLimit(provider) ==
  CASE provider = "openai" -> LimitOpenai
    [] provider = "anthropic" -> LimitAnthropic
    [] provider = "gemini" -> LimitGemini
    [] OTHER -> LimitDefault

\* pLimit's queue hands out the n functions that wait longest
DequeueNewest(queue, n) ==
  [taken |-> SubSeq(queue, Len(queue) - n + 1, Len(queue)),
   rest  |-> SubSeq(queue, 1, Len(queue) - n)]

Dequeue(queue, n) ==
  [taken |-> SubSeq(queue, 1, n),
   rest  |-> SubSeq(queue, n + 1, Len(queue))]

\* the number of waiting functions a limiter starts: as many as it has free slots
FreeSlots(provider, lim) ==
  LET free == getRateLimit(provider) - lim.activeCount
  IN IF free <= 0 THEN 0
     ELSE IF free < Len(lim.queue) THEN free ELSE Len(lim.queue)

\* a function of the limiter has settled: its slot is free again
ReleaseNothing(lim) == lim

Release(lim) == [lim EXCEPT !.activeCount = @ - 1]

Range(f) == {f[i] : i \in DOMAIN f}

(***************************************************************************)
(* The data store, the environment and the runs.                           *)
(***************************************************************************)
Judges == {"J1", "J2"}
Answers == {"A1", "A2", "A3"}
Runs == {1, 2}
\* the providers updateJudge accepts (JudgeCreateSchema)
ProviderEnum == {"openai", "anthropic", "gemini"}
Prompts == {"p0", "p1"}
\* the positions a task can have in the task list of a run
TaskIds == 1..Cardinality(Answers \X Judges)

VARIABLES
  env,              \* the credentials in process.env when LLMClient was constructed
  judges,           \* table judges: judge_id -> [provider, prompt, is_active]
  answer_queues,    \* the answers of the queue that is run
  answer_judges,    \* table answer_judges: pairs <<answer_id, judge_id>>
  attachments,      \* the answers that have a row in table attachments
  evaluations,      \* table evaluations: the rows inserted
  edits,            \* number of judge updates made so far
  mayStart,         \* the runEvaluations calls still to be made
  pc,               \* per run: where runEvaluations stands
  thrown,           \* per run: the message of the Error runEvaluations threw
  attachmentsByAnswer, \* per run: the answers that have an entry in the map
  tasks,            \* per run: the EvaluationTasks, each with its progress
  gpos,             \* per run: the task groupTasksByProvider is fetching the judge of
  tasksByProvider,  \* per run: the Map of groupTasksByProvider, in insertion order
  limiters,         \* per run: provider -> the state of its pLimit instance
  started,          \* per run: provider -> the tasks its limiter started, in order
  summary,          \* per run: the EvaluationSummary returned
  exec,             \* one executeEvaluation call, for the executor on its own
  reg,              \* the answers of the registry's methods, for the registry on its own
  failedLookups,    \* per run: the lookups of fetchEvaluationData that gave an error
  pb                \* one PromptBuilder, for the prompt builders on their own

store == <<env, judges, answer_queues, answer_judges, attachments>>
runvars == <<pc, thrown, attachmentsByAnswer, tasks, gpos, tasksByProvider,
             limiters, started, summary>>
vars == <<env, judges, answer_queues, answer_judges, attachments, evaluations, edits,
          mayStart, pc, thrown, attachmentsByAnswer, tasks, gpos, tasksByProvider,
          limiters, started, summary, exec, reg, failedLookups, pb>>

NoJudge == [provider |-> "", prompt |-> ""]
NoResult == [verdict |-> Null, reasoning |-> Null]
NotSettled == [success |-> FALSE, error |-> <<>>]
NoSummary == [total |-> -1, completed |-> -1, failed |-> -1, errors |-> <<>>]
NoLimiters == [p \in {} |-> 0]

\* the messages of the errors the data store and the providers report
StoreMessage == "connection lost"
CallMessage == "network error"

(***************************************************************************)
(* Evaluation orchestrator: helpers.                                       *)
(***************************************************************************)
\* buildEvaluationTasks: for each answer, in order, one task per assignment of the
\* answer to an active judge (answerJudges is the result of the query)
RowOrder == <<"A1", "A2", "A3", "J1", "J2">>

Less(a, b) ==
  \E m, n \in 1..Len(RowOrder) : RowOrder[m] = a /\ RowOrder[n] = b /\ m < n

RECURSIVE Sorted(_)
Sorted(S) ==
  IF S = {} THEN <<>>
  ELSE LET x == CHOOSE y \in S : \A z \in S \ {y} : Less(y, z)
       IN <<x>> \o Sorted(S \ {x})

NewTask(a, j) ==
  [answer_id |-> a, judge_id |-> j, phase |-> "built", group |-> "",
   judge |-> NoJudge, call |-> "none", result |-> NoResult, settled |-> NotSettled]

RECURSIVE TasksOf(_, _)
TasksOf(answers, answerJudges) ==
  IF answers = <<>> THEN <<>>
  ELSE LET a == Head(answers)
           relevantJudges == Sorted({j \in Judges : <<a, j>> \in answerJudges})
       IN [k \in 1..Len(relevantJudges) |-> NewTask(a, relevantJudges[k])]
          \o TasksOf(Tail(answers), answerJudges)

\* the rows the query of buildEvaluationTasks returns
AllAssignments(answerIds) ==
  {aj \in answer_judges : aj[1] \in answerIds}

ActiveAssignments(answerIds) ==
  {aj \in answer_judges : aj[1] \in answerIds /\ judges[aj[2]].is_active}

buildEvaluationTasks(answers) ==
  LET answerJudges == ActiveAssignments(Range(answers))
  IN IF answerJudges = {} THEN <<>> ELSE TasksOf(answers, answerJudges)

\* groupTasksByProvider, one task: push the task to its provider's list
AddToGroupOverwriting(groups, provider, i) ==
  IF \E k \in 1..Len(groups) : groups[k].provider = provider
  THEN [k \in 1..Len(groups) |->
          IF groups[k].provider = provider
          THEN [groups[k] EXCEPT !.tasks = <<i>>]
          ELSE groups[k]]
  ELSE Append(groups, [provider |-> provider, tasks |-> <<i>>])

AddToGroup(groups, provider, i) ==
  IF \E k \in 1..Len(groups) : groups[k].provider = provider
  THEN [k \in 1..Len(groups) |->
          IF groups[k].provider = provider
          THEN [groups[k] EXCEPT !.tasks = Append(@, i)]
          ELSE groups[k]]
  ELSE Append(groups, [provider |-> provider, tasks |-> <<i>>])

\* rateLimiter(fn) for every task of every group: one new limiter per provider of
\* this run, all tasks of the group in its queue
createProviderRateLimiters(groups) ==
  [p \in {groups[k].provider : k \in 1..Len(groups)} |->
     LET g == CHOOSE k \in 1..Len(groups) : groups[k].provider = p
     IN [activeCount |-> 0, queue |-> groups[g].tasks]]

\* every limiter starts the waiting tasks it has slots for
TakenUnlessOthersBusy(lims, p) ==
  IF \E q \in DOMAIN lims \ {p} : lims[q].activeCount > 0
  THEN Dequeue(lims[p].queue, 0)
  ELSE Dequeue(lims[p].queue, FreeSlots(p, lims[p]))

Taken(lims, p) == Dequeue(lims[p].queue, FreeSlots(p, lims[p]))

AdmitLimitersNotCounting(lims) ==
  [p \in DOMAIN lims |->
     [activeCount |-> lims[p].activeCount, queue |-> Taken(lims, p).rest]]

AdmitLimiters(lims) ==
  [p \in DOMAIN lims |->
     [activeCount |-> lims[p].activeCount + Len(Taken(lims, p).taken),
      queue |-> Taken(lims, p).rest]]

AdmitStarted(lims, st) ==
  [p \in DOMAIN lims |-> st[p] \o Taken(lims, p).taken]

AdmitTasks(lims, ts) ==
  [i \in 1..Len(ts) |->
     IF \E p \in DOMAIN lims : i \in Range(Taken(lims, p).taken)
     THEN [ts[i] EXCEPT !.phase = "getJudge"]
     ELSE ts[i]]

\* the aggregation loop of executeEvaluations
RECURSIVE Flatten(_)
Flatten(groups) ==
  IF groups = <<>> THEN <<>> ELSE Head(groups).tasks \o Flatten(Tail(groups))

TaskOf(t) == [answer_id |-> t.answer_id, judge_id |-> t.judge_id]

AggregateCountingAll(ts, groups) ==
  LET results == Flatten(groups)
      Failed(i) == ~ts[i].settled.success
      failures == SelectSeq(results, Failed)
  IN [total |-> Len(ts),
      completed |-> Len(results),
      failed |-> Len(failures),
      errors |-> [k \in 1..Len(failures) |->
                    [task |-> TaskOf(ts[failures[k]]),
                     error |-> ts[failures[k]].settled.error]]]

AggregateInconclusiveFails(ts, groups) ==
  LET results == Flatten(groups)
      Succeeded(i) == ts[i].settled.success /\ ts[i].result.verdict.s # <<"inconclusive">>
      Failed(i) == ~Succeeded(i)
      failures == SelectSeq(results, Failed)
  IN [total |-> Len(ts),
      completed |-> Len(SelectSeq(results, Succeeded)),
      failed |-> Len(failures),
      errors |-> [k \in 1..Len(failures) |->
                    [task |-> TaskOf(ts[failures[k]]),
                     error |-> ts[failures[k]].settled.error]]]

AggregateWithoutErrors(ts, groups) ==
  LET results == Flatten(groups)
      Succeeded(i) == ts[i].settled.success
      Failed(i) == ~ts[i].settled.success
  IN [total |-> Len(ts),
      completed |-> Len(SelectSeq(results, Succeeded)),
      failed |-> Len(SelectSeq(results, Failed)),
      errors |-> <<>>]

Aggregate(ts, groups) ==
  LET results == Flatten(groups)
      Succeeded(i) == ts[i].settled.success
      Failed(i) == ~ts[i].settled.success
      failures == SelectSeq(results, Failed)
  IN [total |-> Len(ts),
      completed |-> Len(SelectSeq(results, Succeeded)),
      failed |-> Len(failures),
      errors |-> [k \in 1..Len(failures) |->
                    [task |-> TaskOf(ts[failures[k]]),
                     error |-> ts[failures[k]].settled.error]]]

AllSettled(ts, groups) == \A i \in Range(Flatten(groups)) : ts[i].phase = "settled"

(***************************************************************************)
(* Evaluation orchestrator: the steps of runEvaluations.  Every await of   *)
(* the code is a step: the call is in flight until its Return action.      *)
(***************************************************************************)
\* the outcomes of provider.evaluate the runs are checked on
AdapterSample ==
  { [kind |-> "text", text |-> <<"{", "vPass", "rText", "}">>],
    [kind |-> "error", message |-> CallMessage] }

ZeroSummaryCountingAnswers ==
  [total |-> Cardinality(answer_queues), completed |-> 0, failed |-> 0, errors |-> <<>>]

\* the summary runEvaluations returns when there is no task
ZeroSummary == [total |-> 0, completed |-> 0, failed |-> 0, errors |-> <<>>]

\* runEvaluations(queueId) is called: the answers query is sent
Start(r) ==
  /\ r \in mayStart
  /\ pc[r] = "idle"
  /\ pc' = [pc EXCEPT ![r] = "answers"]
  /\ UNCHANGED <<store, evaluations, edits, mayStart, thrown, attachmentsByAnswer, tasks,
                 gpos, tasksByProvider, limiters, started, summary, exec, reg, failedLookups, pb>>

\* fetchEvaluationData after the answers query: throw on its error, return
\* without tasks when there are no answers, else go on
AfterAnswersLookupIgnoringError(ok, answers) ==
  IF ~ok \/ answers = {} THEN "returned" ELSE "attachments"

AfterAnswersLookup(ok, answers) ==
  IF ~ok THEN "thrown"
  ELSE IF answers = {} THEN "returned" ELSE "attachments"

\* fetchEvaluationData: the answers query returns
AnswersReturn(r, ok) ==
  /\ pc[r] = "answers"
  /\ pc' = [pc EXCEPT ![r] = AfterAnswersLookup(ok, answer_queues)]
  /\ failedLookups' = [failedLookups EXCEPT ![r] = IF ok THEN @ ELSE @ \cup {"answers"}]
  /\ thrown' = [thrown EXCEPT ![r] =
                  IF pc'[r] = "thrown"
                  THEN <<"Failed to fetch answers: ", StoreMessage>>
                  ELSE @]
  /\ summary' = [summary EXCEPT ![r] = IF pc'[r] = "returned" THEN ZeroSummary ELSE @]
  /\ UNCHANGED <<store, evaluations, edits, mayStart, attachmentsByAnswer, tasks, gpos,
                 tasksByProvider, limiters, started, exec, reg, pb>>

\* fetchEvaluationData after the attachments query: its error is not read
AfterAttachmentsLookupThrowing(ok) == IF ok THEN "assignments" ELSE "thrown"

AfterAttachmentsLookup(ok) == "assignments"

\* fetchEvaluationData: the attachments query returns
AttachmentsReturn(r, ok) ==
  /\ pc[r] = "attachments"
  /\ attachmentsByAnswer' =
       [attachmentsByAnswer EXCEPT ![r] = IF ok THEN attachments \cap answer_queues ELSE {}]
  /\ failedLookups' = [failedLookups EXCEPT ![r] = IF ok THEN @ ELSE @ \cup {"attachments"}]
  /\ pc' = [pc EXCEPT ![r] = AfterAttachmentsLookup(ok)]
  /\ UNCHANGED <<store, evaluations, edits, mayStart, thrown, tasks, gpos, tasksByProvider,
                 limiters, started, summary, exec, reg, pb>>

\* buildEvaluationTasks: the assignments query returns; with tasks,
\* executeEvaluations begins and groupTasksByProvider sends its first getJudge
AssignmentsReturn(r, ok) ==
  /\ pc[r] = "assignments"
  /\ failedLookups' = [failedLookups EXCEPT ![r] = IF ok THEN @ ELSE @ \cup {"assignments"}]
  /\ IF ~ok
     THEN /\ pc' = [pc EXCEPT ![r] = "thrown"]
          /\ thrown' = [thrown EXCEPT ![r] = <<"Failed to fetch judges: ", StoreMessage>>]
          /\ UNCHANGED <<summary, tasks, gpos>>
     ELSE IF buildEvaluationTasks(Sorted(answer_queues)) = <<>>
          THEN /\ pc' = [pc EXCEPT ![r] = "returned"]
               /\ summary' = [summary EXCEPT ![r] = ZeroSummary]
               /\ UNCHANGED <<thrown, tasks, gpos>>
          ELSE /\ pc' = [pc EXCEPT ![r] = "grouping"]
               /\ tasks' = [tasks EXCEPT ![r] = buildEvaluationTasks(Sorted(answer_queues))]
               /\ gpos' = [gpos EXCEPT ![r] = 1]
               /\ UNCHANGED <<thrown, summary>>
  /\ UNCHANGED <<store, evaluations, edits, mayStart, attachmentsByAnswer, tasksByProvider,
                 limiters, started, exec, reg, pb>>

\* groupTasksByProvider: the getJudge of task gpos returns.  After the last task
\* executeEvaluations creates the limiters and hands them every task.
GroupJudgeReturns(r, ok) ==
  /\ pc[r] = "grouping"
  /\ LET i == gpos[r]
         provider == judges[tasks[r][i].judge_id].provider
         groups == AddToGroup(tasksByProvider[r], provider, i)
         ts1 == [tasks[r] EXCEPT ![i].group = provider]
         queued == [k \in 1..Len(ts1) |->
                      IF k \in Range(Flatten(groups))
                      THEN [ts1[k] EXCEPT !.phase = "queued"]
                      ELSE ts1[k]]
         lims == createProviderRateLimiters(groups)
     IN IF ~ok
        THEN /\ pc' = [pc EXCEPT ![r] = "thrown"]
             /\ thrown' = [thrown EXCEPT ![r] =
                             <<"Failed to fetch judge ", tasks[r][i].judge_id, ": ",
                               StoreMessage>>]
             /\ UNCHANGED <<tasks, gpos, tasksByProvider, limiters, started>>
        ELSE /\ tasksByProvider' = [tasksByProvider EXCEPT ![r] = groups]
             /\ UNCHANGED thrown
             /\ IF i < Len(tasks[r])
                THEN /\ gpos' = [gpos EXCEPT ![r] = i + 1]
                     /\ tasks' = [tasks EXCEPT ![r] = ts1]
                     /\ UNCHANGED <<pc, limiters, started>>
                ELSE /\ pc' = [pc EXCEPT ![r] = "executing"]
                     /\ gpos' = [gpos EXCEPT ![r] = 0]
                     /\ limiters' = [limiters EXCEPT ![r] = AdmitLimiters(lims)]
                     /\ started' = [started EXCEPT ![r] =
                                      AdmitStarted(lims, [p \in DOMAIN lims |-> <<>>])]
                     /\ tasks' = [tasks EXCEPT ![r] = AdmitTasks(lims, queued)]
  /\ UNCHANGED <<store, evaluations, edits, mayStart, attachmentsByAnswer, summary, exec, reg, failedLookups, pb>>

\* The promise of task i settles with ts1[i].settled: its limiter frees the slot
\* and starts the next waiting task; when the last promise has settled,
\* executeEvaluations aggregates the results and runEvaluations returns.
Settle(r, i, ts1) ==
  LET p == ts1[i].group
      lims1 == [limiters[r] EXCEPT ![p] = Release(@)]
      ts2 == AdmitTasks(lims1, ts1)
  IN /\ limiters' = [limiters EXCEPT ![r] = AdmitLimiters(lims1)]
     /\ started' = [started EXCEPT ![r] = AdmitStarted(lims1, started[r])]
     /\ tasks' = [tasks EXCEPT ![r] = ts2]
     /\ IF AllSettled(ts2, tasksByProvider[r])
        THEN /\ pc' = [pc EXCEPT ![r] = "returned"]
             /\ summary' = [summary EXCEPT ![r] = Aggregate(ts2, tasksByProvider[r])]
        ELSE UNCHANGED <<pc, summary>>

\* getJudge: the row of the judge as the data store has it now (the cache of
\* the source is disabled, the row is selected on every call)
getJudgeCached(judgeId) ==
  [provider |-> judges[judgeId].provider, prompt |-> "p0"]

getJudge(judgeId) ==
  [provider |-> judges[judgeId].provider, prompt |-> judges[judgeId].prompt]

\* inside the slot: getJudge returns; executeEvaluation resolves the provider
\* and, when it is registered, calls its adapter
JudgeReturns(r, i, ok) ==
  /\ pc[r] = "executing"
  /\ i \in 1..Len(tasks[r])
  /\ tasks[r][i].phase = "getJudge"
  /\ LET t == tasks[r][i]
         judge == getJudge(t.judge_id)
         provider == getProvider(initializeProviders(env), judge.provider)
     IN IF ~ok
        THEN Settle(r, i, [tasks[r] EXCEPT
               ![i].phase = "settled",
               ![i].settled = [success |-> FALSE,
                               error |-> <<"Failed to fetch judge ", t.judge_id, ": ",
                                           StoreMessage>>]])
        ELSE /\ tasks' = [tasks EXCEPT ![r] =
                  IF provider.threw
                  THEN [@ EXCEPT ![i].phase = "insert",
                                 ![i].judge = judge,
                                 ![i].result = EvaluationFailed(provider.message)]
                  ELSE [@ EXCEPT ![i].phase = "evaluate", ![i].judge = judge]]
             /\ UNCHANGED <<pc, limiters, started, summary>>
  /\ UNCHANGED <<store, evaluations, edits, mayStart, thrown, attachmentsByAnswer, gpos,
                 tasksByProvider, exec, reg, failedLookups, pb>>

\* inside the slot: provider.evaluate returns or throws; the insert is sent
AdapterReturns(r, i, outcome) ==
  /\ pc[r] = "executing"
  /\ i \in 1..Len(tasks[r])
  /\ tasks[r][i].phase = "evaluate"
  /\ tasks' = [tasks EXCEPT ![r] =
       [@ EXCEPT ![i].phase = "insert",
                 ![i].call = outcome.kind,
                 ![i].result = executeEvaluationAfterCall(tasks[r][i].judge.provider, outcome)]]
  /\ UNCHANGED <<store, evaluations, edits, mayStart, pc, thrown, attachmentsByAnswer, gpos,
                 tasksByProvider, limiters, started, summary, exec, reg, failedLookups, pb>>

\* storeEvaluationResult: the row it inserts
NewRow(r, i, t) ==
  [evaluation_id |-> <<r, i, Cardinality({e \in evaluations :
                                            e.evaluation_id[1] = r /\ e.evaluation_id[2] = i})>>,
   answer_id |-> t.answer_id, judge_id |-> t.judge_id,
   verdict |-> t.result.verdict, reasoning |-> t.result.reasoning]

\* inside the slot: the insert returns
InsertReturns(r, i, ok) ==
  /\ pc[r] = "executing"
  /\ i \in 1..Len(tasks[r])
  /\ tasks[r][i].phase = "insert"
  /\ IF ok
     THEN /\ evaluations' = evaluations \cup {NewRow(r, i, tasks[r][i])}
          /\ Settle(r, i, [tasks[r] EXCEPT
               ![i].phase = "settled",
               ![i].settled = [success |-> TRUE, error |-> <<>>]])
     ELSE /\ UNCHANGED evaluations
          /\ Settle(r, i, [tasks[r] EXCEPT
               ![i].phase = "settled",
               ![i].settled = [success |-> FALSE,
                               error |-> <<"Failed to store evaluation result: ",
                                           StoreMessage>>]])
  /\ UNCHANGED <<store, edits, mayStart, thrown, attachmentsByAnswer, gpos, tasksByProvider,
                 exec, reg, failedLookups, pb>>

\* the judges route: updateJudge writes the fields of a judge
updateJudge(j, provider, prompt, is_active) ==
  /\ edits < MaxEdits
  /\ edits' = edits + 1
  /\ judges' = [judges EXCEPT ![j] =
                  [provider |-> provider, prompt |-> prompt, is_active |-> is_active]]
  /\ judges'[j] # judges[j]
  /\ UNCHANGED <<env, answer_queues, answer_judges, attachments, evaluations, mayStart,
                 runvars, exec, reg, failedLookups, pb>>

(***************************************************************************)
(* The executor on its own: one executeEvaluation call, on every outcome   *)
(* of the adapter.                                                         *)
(***************************************************************************)
Texts == UNION {[1..n -> Tokens] : n \in 0..MaxTextLen}

AdapterOutcomes ==
  {[kind |-> "text", text |-> text] : text \in Texts}
  \cup {[kind |-> "error", message |-> m] : m \in {CallMessage, "Unknown error"}}

NoOutcome == [kind |-> "none"]
ExecOff ==
  [pc |-> "off", provider |-> "", prompt |-> "none", outcome |-> NoOutcome,
   parsed |-> NoResult, result |-> NoResult]

\* executeEvaluation(judge, context) up to the call of provider.evaluate: the
\* provider is resolved, then the prompt is built and the adapter called
ExecCall ==
  /\ exec.pc = "start"
  /\ LET provider == getProvider(initializeProviders(env), exec.provider)
     IN exec' = IF provider.threw
                THEN [exec EXCEPT !.pc = "done", !.result = EvaluationFailed(provider.message)]
                ELSE [exec EXCEPT !.pc = "calling", !.prompt = "built"]
  /\ UNCHANGED <<store, evaluations, edits, mayStart, runvars, reg, failedLookups, pb>>

\* provider.evaluate returns or throws, and executeEvaluation returns
ExecAdapterReturns ==
  /\ exec.pc = "calling"
  /\ exec' = [exec EXCEPT !.pc = "done",
                          !.parsed = IF evaluate(exec.provider, exec.outcome).threw
                                     THEN NoResult
                                     ELSE evaluate(exec.provider, exec.outcome).result,
                          !.result = executeEvaluationAfterCall(exec.provider, exec.outcome)]
  /\ UNCHANGED <<store, evaluations, edits, mayStart, runvars, reg, failedLookups, pb>>

(***************************************************************************)
(* The validation step on its own: parseEvaluationResponse applied to a    *)
(* result, and once more to what it returned.                              *)
(***************************************************************************)
ValidateCall ==
  /\ exec.pc = "validate"
  /\ LET validated == parseEvaluationResponse(exec.parsed)
     IN exec' = IF validated.threw
                THEN [exec EXCEPT !.pc = "threw"]
                ELSE [exec EXCEPT !.pc = "validated", !.result = validated.result]
  /\ UNCHANGED <<store, evaluations, edits, mayStart, runvars, reg, failedLookups, pb>>

ValidateAgainCall ==
  /\ exec.pc = "validated"
  /\ LET validated == parseEvaluationResponse(exec.result)
     IN exec' = IF validated.threw
                THEN [exec EXCEPT !.pc = "threw"]
                ELSE [exec EXCEPT !.pc = "revalidated", !.parsed = exec.result,
                                  !.result = validated.result]
  /\ UNCHANGED <<store, evaluations, edits, mayStart, runvars, reg, failedLookups, pb>>

(***************************************************************************)
(* The registry on its own: each method of LLMClient, and the adapter's    *)
(* validateModel, called once for a provider identifier and a model.       *)
(***************************************************************************)
RegOff ==
  [pc |-> "off", done |-> {}, provider |-> "", model |-> "", listed |-> {},
   available |-> FALSE, getThrew |-> FALSE, valid |-> FALSE, adapterValid |-> FALSE]

RegistryCall(name) ==
  /\ reg.pc = "on"
  /\ name \notin reg.done
  /\ UNCHANGED <<store, evaluations, edits, mayStart, runvars, exec, failedLookups, pb>>

GetAvailableProvidersCall ==
  /\ RegistryCall("getAvailableProviders")
  /\ reg' = [reg EXCEPT !.done = @ \cup {"getAvailableProviders"},
                        !.listed = getAvailableProviders]

IsProviderAvailableCall ==
  /\ RegistryCall("isProviderAvailable")
  /\ reg' = [reg EXCEPT !.done = @ \cup {"isProviderAvailable"},
                        !.available = isProviderAvailable(initializeProviders(env),
                                                          reg.provider)]

GetProviderCall ==
  /\ RegistryCall("getProvider")
  /\ reg' = [reg EXCEPT !.done = @ \cup {"getProvider"},
                        !.getThrew = getProvider(initializeProviders(env), reg.provider).threw]

ValidateProviderConfigCall ==
  /\ RegistryCall("validateProviderConfig")
  /\ reg' = [reg EXCEPT !.done = @ \cup {"validateProviderConfig"},
                        !.valid = validateProviderConfig(reg.provider, reg.model)]

\* validateModel(model) of the adapter class the factory has for the provider
AdapterValidateModelCall ==
  /\ RegistryCall("validateModel")
  /\ reg.provider \in ProviderEnum
  /\ reg' = [reg EXCEPT !.done = @ \cup {"validateModel"},
                        !.adapterValid = AdapterValidateModel(reg.provider, reg.model)]

(***************************************************************************)
(* The prompt builders on their own: new PromptBuilder(judge.prompt, ...)  *)
(* of either class, then buildPrompt.                                      *)
(***************************************************************************)
PromptBuilders == {"prompt-builder.ts", "types.ts"}

PbOff == [pc |-> "off", builder |-> "", judgeCustomPrompt |-> <<>>, systemPrompt |-> <<>>]

\* buildPrompt(context): the systemPrompt of the EvaluationPrompt
BuildPromptCall ==
  /\ pb.pc = "constructed"
  /\ pb' = [pb EXCEPT
       !.pc = "built",
       !.systemPrompt = IF pb.builder = "prompt-builder.ts"
                        THEN buildSystemPrompt(pb.judgeCustomPrompt)
                        ELSE buildSystemPromptUnlessComplete(pb.judgeCustomPrompt)]
  /\ UNCHANGED <<store, evaluations, edits, mayStart, runvars, exec, reg, failedLookups>>

(***************************************************************************)
(* Specifications.                                                         *)
(***************************************************************************)
EnvChoices ==
  { {"OPENAI_API_KEY", "ANTHROPIC_API_KEY", "GOOGLE_AI_API_KEY"},
    {"OPENAI_API_KEY"} }

InitRuns ==
  /\ evaluations = {}
  /\ edits = 0
  /\ pc = [r \in Runs |-> "idle"]
  /\ thrown = [r \in Runs |-> <<>>]
  /\ attachmentsByAnswer = [r \in Runs |-> {}]
  /\ tasks = [r \in Runs |-> <<>>]
  /\ gpos = [r \in Runs |-> 0]
  /\ tasksByProvider = [r \in Runs |-> <<>>]
  /\ limiters = [r \in Runs |-> NoLimiters]
  /\ started = [r \in Runs |-> NoLimiters]
  /\ summary = [r \in Runs |-> NoSummary]
  /\ failedLookups = [r \in Runs |-> {}]

\* one run of a queue, over the assignments two answers and two judges can have
\* (the third answer is in no queue)
Init ==
  /\ env \in EnvChoices
  /\ \E a \in BOOLEAN :
       judges = [j \in Judges |->
                   IF j = "J1"
                   THEN [provider |-> "openai", prompt |-> "p0", is_active |-> TRUE]
                   ELSE [provider |-> "anthropic", prompt |-> "p0", is_active |-> a]]
  /\ answer_queues \in SUBSET {"A1", "A2"}
  /\ answer_judges \in SUBSET {<<"A1", "J2">>, <<"A2", "J1">>, <<"A2", "J2">>}
  /\ attachments = {"A1"}
  /\ mayStart = {1}
  /\ exec = ExecOff
  /\ reg = RegOff
  /\ pb = PbOff
  /\ InitRuns

\* the updates the environment makes change one field of the judge
OneFieldEdit(row, provider, prompt, a) ==
  Cardinality({f \in {"provider", "prompt", "is_active"} :
                 row[f] # [provider |-> provider, prompt |-> prompt, is_active |-> a][f]}) = 1

\* an operator saves the judge form with one field changed
JudgeEdited(j, provider, prompt, a) ==
  /\ OneFieldEdit(judges[j], provider, prompt, a)
  /\ updateJudge(j, provider, prompt, a)

Next ==
  \/ \E r \in Runs : Start(r)
  \/ \E r \in Runs, ok \in BOOLEAN : AnswersReturn(r, ok)
  \/ \E r \in Runs, ok \in BOOLEAN : AttachmentsReturn(r, ok)
  \/ \E r \in Runs, ok \in BOOLEAN : AssignmentsReturn(r, ok)
  \/ \E r \in Runs, ok \in BOOLEAN : GroupJudgeReturns(r, ok)
  \/ \E r \in Runs, i \in TaskIds, ok \in BOOLEAN : JudgeReturns(r, i, ok)
  \/ \E r \in Runs, i \in TaskIds, outcome \in AdapterSample : AdapterReturns(r, i, outcome)
  \/ \E r \in Runs, i \in TaskIds, ok \in BOOLEAN : InsertReturns(r, i, ok)
  \/ \E j \in Judges, provider \in ProviderEnum, prompt \in Prompts, a \in BOOLEAN :
       JudgeEdited(j, provider, prompt, a)

Spec == Init /\ [][Next]_vars

\* two concurrent runs of one queue
InitConcurrent ==
  /\ env = {"OPENAI_API_KEY", "ANTHROPIC_API_KEY", "GOOGLE_AI_API_KEY"}
  /\ judges = [j \in Judges |-> [provider |-> "anthropic", prompt |-> "p0",
                                 is_active |-> TRUE]]
  /\ answer_queues = {"A1"}
  /\ answer_judges = {<<"A1", "J1">>}
  /\ attachments = {}
  /\ mayStart = Runs
  /\ exec = ExecOff
  /\ reg = RegOff
  /\ pb = PbOff
  /\ InitRuns

SpecConcurrent == InitConcurrent /\ [][Next]_vars

\* the executor on its own: a judge's provider, the credentials of the process
\* and what the provider's adapter is going to answer
InitExec ==
  /\ env \in EnvChoices
  /\ judges = [j \in Judges |-> [provider |-> "openai", prompt |-> "p0", is_active |-> TRUE]]
  /\ answer_queues = {}
  /\ answer_judges = {}
  /\ attachments = {}
  /\ mayStart = {}
  /\ exec \in [pc : {"start"}, provider : {"openai", "anthropic", "mistral"},
               prompt : {"none"}, outcome : AdapterOutcomes, parsed : {NoResult}, result : {NoResult}]
  /\ reg = RegOff
  /\ pb = PbOff
  /\ InitRuns

NextExec ==
  \/ ExecCall
  \/ ExecAdapterReturns

SpecExec == InitExec /\ [][NextExec]_vars

\* model outputs that hold a JSON object: a word of prose or none, the object,
\* and prose after it, which may have braces of its own
Leads == {<<>>} \cup {<<tok>> : tok \in ProseTokens}

JsonObjects ==
  {<<"{">> \o members \o <<"}">> :
     members \in UNION {[1..n -> MemberTokens] : n \in 0..MaxObjectLen}}

Trails == UNION {[1..n -> ProseTokens \cup {"{", "}"}] : n \in 0..MaxProseLen}

ObjectTexts == {lead \o object \o trail : lead \in Leads, object \in JsonObjects, trail \in Trails}

\* the executor with each of the three adapters, on the outputs with an object
InitAdapter ==
  /\ env = {"OPENAI_API_KEY", "ANTHROPIC_API_KEY", "GOOGLE_AI_API_KEY"}
  /\ judges = [j \in Judges |-> [provider |-> "openai", prompt |-> "p0", is_active |-> TRUE]]
  /\ answer_queues = {}
  /\ answer_judges = {}
  /\ attachments = {}
  /\ mayStart = {}
  /\ exec \in [pc : {"start"}, provider : ProviderEnum, prompt : {"none"},
               outcome : {[kind |-> "text", text |-> text] : text \in ObjectTexts},
               parsed : {NoResult}, result : {NoResult}]
  /\ reg = RegOff
  /\ pb = PbOff
  /\ InitRuns

SpecAdapter == InitAdapter /\ [][NextExec]_vars

\* a call that is in flight returns
Returns ==
  \E r \in Runs :
    \/ \E ok \in BOOLEAN : AnswersReturn(r, ok)
    \/ \E ok \in BOOLEAN : AttachmentsReturn(r, ok)
    \/ \E ok \in BOOLEAN : AssignmentsReturn(r, ok)
    \/ \E ok \in BOOLEAN : GroupJudgeReturns(r, ok)
    \/ \E i \in TaskIds, ok \in BOOLEAN : JudgeReturns(r, i, ok)
    \/ \E i \in TaskIds, outcome \in AdapterSample : AdapterReturns(r, i, outcome)
    \/ \E i \in TaskIds, ok \in BOOLEAN : InsertReturns(r, i, ok)

\* every data-store call and every provider call eventually returns
Fairness == WF_vars(Returns)

\* one run of a queue of two answers with two active assignments: to one
\* provider, whose limiter then makes a task wait, or to two providers
InitLive ==
  /\ env = {"OPENAI_API_KEY", "ANTHROPIC_API_KEY", "GOOGLE_AI_API_KEY"}
  /\ judges = [j \in Judges |->
                 IF j = "J1"
                 THEN [provider |-> "openai", prompt |-> "p0", is_active |-> TRUE]
                 ELSE [provider |-> "anthropic", prompt |-> "p0", is_active |-> TRUE]]
  /\ answer_queues = {"A1", "A2"}
  /\ answer_judges \in {{<<"A1", "J2">>, <<"A2", "J2">>}, {<<"A2", "J1">>, <<"A2", "J2">>}}
  /\ attachments = {"A1"}
  /\ mayStart = {1}
  /\ exec = ExecOff
  /\ reg = RegOff
  /\ pb = PbOff
  /\ InitRuns

SpecLive == InitLive /\ [][Next]_vars /\ Fairness

\* the environment of the README: its name for the Gemini credential is not the
\* one initializeProviders reads
ReadmeEnv == {"OPENAI_API_KEY", "ANTHROPIC_API_KEY", "GEMINI_API_KEY"}

RegistryEnvs == EnvChoices \cup {{}, ReadmeEnv}

\* the model names of the factory's and the adapters' lists, and one of neither
Models ==
  UNION {PROVIDER_CONFIGS[p] : p \in DOMAIN PROVIDER_CONFIGS}
  \cup UNION {validModels(p) : p \in ProviderEnum}
  \cup {"gpt-5"}

InitRegistry ==
  /\ env \in RegistryEnvs
  /\ judges = [j \in Judges |-> [provider |-> "openai", prompt |-> "p0", is_active |-> TRUE]]
  /\ answer_queues = {}
  /\ answer_judges = {}
  /\ attachments = {}
  /\ mayStart = {}
  /\ exec = ExecOff
  /\ \E provider \in ProviderEnum \cup {"mistral"}, model \in Models :
       reg = [RegOff EXCEPT !.pc = "on", !.provider = provider, !.model = model]
  /\ pb = PbOff
  /\ InitRuns

NextRegistry ==
  \/ GetAvailableProvidersCall
  \/ IsProviderAvailableCall
  \/ GetProviderCall
  \/ ValidateProviderConfigCall
  \/ AdapterValidateModelCall

SpecRegistry == InitRegistry /\ [][NextRegistry]_vars

\* results with a string verdict and a string reasoning
StringVerdicts == {<<"pass">>, <<"fail">>, <<"inconclusive">>, <<"maybe">>, <<"PASS">>, <<>>}

StringReasonings == UNION {[1..n -> Whitespace \cup {"Looks"}] : n \in 0..MaxTextLen}

InitValidate ==
  /\ env = {}
  /\ judges = [j \in Judges |-> [provider |-> "openai", prompt |-> "p0", is_active |-> TRUE]]
  /\ answer_queues = {}
  /\ answer_judges = {}
  /\ attachments = {}
  /\ mayStart = {}
  /\ \E verdict \in StringVerdicts, reasoning \in StringReasonings :
       exec = [ExecOff EXCEPT !.pc = "validate",
                              !.parsed = [verdict |-> Str(verdict),
                                          reasoning |-> Str(reasoning)]]
  /\ reg = RegOff
  /\ pb = PbOff
  /\ InitRuns

NextValidate ==
  \/ ValidateCall
  \/ ValidateAgainCall

SpecValidate == InitValidate /\ [][NextValidate]_vars

\* the judge instruction texts the prompt builders are checked on
Instructions == UNION {[1..n -> InstructionTokens] : n \in 0..MaxInstructionLen}

InitPrompt ==
  /\ env = {}
  /\ judges = [j \in Judges |-> [provider |-> "openai", prompt |-> "p0", is_active |-> TRUE]]
  /\ answer_queues = {}
  /\ answer_judges = {}
  /\ attachments = {}
  /\ mayStart = {}
  /\ exec = ExecOff
  /\ reg = RegOff
  /\ pb \in [pc : {"constructed"}, builder : PromptBuilders,
             judgeCustomPrompt : Instructions, systemPrompt : {<<>>}]
  /\ InitRuns

NextPrompt == BuildPromptCall

SpecPrompt == InitPrompt /\ [][NextPrompt]_vars

\* the scenario of three answers: two with one active judge (openai) each and
\* one with two active judges (openai and anthropic); the judges are not edited
\* while the queue runs
InitScenario ==
  /\ env = {"OPENAI_API_KEY", "ANTHROPIC_API_KEY", "GOOGLE_AI_API_KEY"}
  /\ judges = [j \in Judges |->
                 IF j = "J1"
                 THEN [provider |-> "openai", prompt |-> "p0", is_active |-> TRUE]
                 ELSE [provider |-> "anthropic", prompt |-> "p0", is_active |-> TRUE]]
  /\ answer_queues = {"A1", "A2", "A3"}
  /\ answer_judges = {<<"A1", "J1">>, <<"A2", "J1">>, <<"A3", "J1">>, <<"A3", "J2">>}
  /\ attachments = {"A1"}
  /\ mayStart = {1}
  /\ exec = ExecOff
  /\ reg = RegOff
  /\ pb = PbOff
  /\ InitRuns

NextScenario ==
  \/ \E r \in Runs : Start(r)
  \/ Returns

SpecScenario == InitScenario /\ [][NextScenario]_vars

(***************************************************************************)
(* Properties.                                                             *)
(***************************************************************************)
Rows(r, i) == {e \in evaluations : e.evaluation_id[1] = r /\ e.evaluation_id[2] = i}

\* the adapter calls of run r to provider p that are in flight
InFlight(r, p) ==
  {i \in 1..Len(tasks[r]) : tasks[r][i].phase = "evaluate" /\ tasks[r][i].judge.provider = p}

StoreFailure(error) == error # <<>> /\ error[1] = "Failed to store evaluation result: "

IsPrefix(s, t) == Len(s) <= Len(t) /\ \A k \in 1..Len(s) : s[k] = t[k]

GroupOf(r, p) ==
  LET g == CHOOSE k \in 1..Len(tasksByProvider[r]) : tasksByProvider[r][k].provider = p
  IN tasksByProvider[r][g].tasks

\* C1: once the task list is built, no failure of a single task's judge fetch,
\* LLM call or storage write makes runEvaluations throw: it returns a summary.
C1_NoThrowOnceTasksBuilt ==
  \A r \in Runs : tasks[r] # <<>> => pc[r] # "thrown"

\* C2: when a run has returned, every task has exactly one inserted row, and a
\* task has no row only if its own insertEvaluation failed.
C2_OneRowPerTask ==
  \A r \in Runs : pc[r] = "returned" =>
    \A i \in 1..Len(tasks[r]) :
      \/ Cardinality(Rows(r, i)) = 1
      \/ Cardinality(Rows(r, i)) = 0 /\ StoreFailure(tasks[r][i].settled.error)

\* C3: every entry of the returned summary's errors list belongs to a task whose
\* Evaluation insert failed; no other kind of error appears in it.
C3_OnlyStorageErrorsReported ==
  \A r \in Runs : pc[r] = "returned" =>
    \A k \in 1..Len(summary[r].errors) : StoreFailure(summary[r].errors[k].error)

\* C4: every returned summary has completed + failed = total, and total is the
\* number of tasks built for the queue.
C4_NoTaskLoss ==
  \A r \in Runs : pc[r] = "returned" =>
    /\ summary[r].completed + summary[r].failed = summary[r].total
    /\ summary[r].total = Len(tasks[r])

C4_Witness ==
  /\ pc[1] = "returned"
  /\ summary[1].completed >= 1
  /\ summary[1].failed >= 1
  /\ summary[1].total = 3

\* C5: within one run, the adapter calls to a provider that are in flight at the
\* same time never exceed that provider's limit.
C5_CeilingPerRun ==
  \A r \in Runs : \A p \in ProviderEnum :
    Cardinality(InFlight(r, p)) <= getRateLimit(p)

\* C6: over two concurrent runs, the adapter calls to a provider that are in
\* flight at the same time never exceed that provider's limit.
C6_CeilingAcrossRuns ==
  \A p \in ProviderEnum :
    Cardinality(InFlight(1, p)) + Cardinality(InFlight(2, p)) <= getRateLimit(p)

\* C7: executeEvaluation always returns (it never throws), and the result has
\* a verdict among pass, fail, inconclusive and a reasoning that is a non-empty
\* string, whatever the adapter gave.
C7_ResultWellFormed ==
  exec.pc = "done" =>
    /\ exec.result.verdict.t = "string"
    /\ exec.result.verdict.s \in validVerdicts
    /\ exec.result.reasoning.t = "string"
    /\ exec.result.reasoning.s # <<>>

\* the executor returned on a JSON output whose reasoning is no string
C7_Witness ==
  /\ exec.pc = "done"
  /\ exec.result.reasoning.s = <<"Evaluation failed: ", "result.reasoning.trim is not a function">>

\* C8: a task whose adapter call failed gets the result inconclusive with
\* reasoning "Evaluation failed: <message>"; its row is inserted with that
\* result; and when the insert succeeded the summary counts the task as
\* completed and does not list it in errors.
C8_CallFailureIsCompleted ==
  \A r \in Runs : \A i \in 1..Len(tasks[r]) :
    LET t == tasks[r][i] IN
    t.call = "error" =>
      /\ t.result = [verdict |-> Str(<<"inconclusive">>),
                     reasoning |-> Str(<<"Evaluation failed: ", AdapterName(t.judge.provider),
                                         " evaluation failed: ", CallMessage>>)]
      /\ \A e \in Rows(r, i) : e.verdict = t.result.verdict /\ e.reasoning = t.result.reasoning
      /\ (t.phase = "settled" /\ ~StoreFailure(t.settled.error)) =>
            /\ Cardinality(Rows(r, i)) = 1
            /\ t.settled.success
      /\ (pc[r] = "returned" /\ t.settled.success) =>
            /\ \A k \in 1..Len(summary[r].errors) : summary[r].errors[k].task # TaskOf(t)
            /\ summary[r].completed =
                 Cardinality({k \in 1..Len(tasks[r]) : tasks[r][k].settled.success})

\* a run returned with a single task, whose adapter call failed, as completed
C8_Witness ==
  /\ pc[1] = "returned"
  /\ Len(tasks[1]) = 1
  /\ tasks[1][1].call = "error"
  /\ summary[1].completed = 1
  /\ summary[1].failed = 0
  /\ Cardinality(Rows(1, 1)) = 1

\* C9: every task handed to a limiter is eventually started and settles, and a
\* run that executes its tasks eventually returns.
C9_EveryTaskFinishes ==
  (pc[1] = "executing")
    ~> (/\ pc[1] = "returned"
        /\ \A i \in 1..Len(tasks[1]) :
             /\ tasks[1][i].phase = "settled"
             /\ i \in Range(started[1][tasks[1][i].group]))

\* a run returned after a task had to wait for a slot of its limiter
C9_Witness ==
  /\ pc[1] = "returned"
  /\ \E p \in DOMAIN started[1] :
       Len(started[1][p]) > getRateLimit(p)

\* C10: a limiter starts its tasks in the order they were handed to it: the
\* tasks started so far are always the first ones of the provider's group.
C10_FifoAdmission ==
  \A r \in Runs : \A p \in DOMAIN started[r] :
    IsPrefix(started[r][p], GroupOf(r, p))

\* a limiter with fewer slots than tasks has started all of its tasks: the
\* later ones waited in its queue
C10_Witness ==
  \E p \in DOMAIN started[1] :
    /\ Len(started[1][p]) >= 2
    /\ Len(started[1][p]) > getRateLimit(p)
    /\ limiters[1][p].queue = <<>>

\* the tasks of run r in group p that hold a slot of the group's limiter
InSlot(r, p) ==
  {i \in 1..Len(tasks[r]) :
     tasks[r][i].group = p /\ tasks[r][i].phase \in {"getJudge", "evaluate", "insert"}}

\* the tasks of run r in group p that wait in the queue of the group's limiter
Waiting(r, p) ==
  {i \in 1..Len(tasks[r]) : tasks[r][i].group = p /\ tasks[r][i].phase = "queued"}

\* C11: provider groups do not block each other: while a run executes, a task
\* of a group waits only when the group's own limiter has all of its slots
\* taken, whatever the other groups' limiters hold; each limiter admits up to
\* its own limit.
C11_NoCrossProviderBlocking ==
  \A r \in Runs : pc[r] = "executing" =>
    \A p \in DOMAIN limiters[r] :
      /\ limiters[r][p].activeCount = Cardinality(InSlot(r, p))
      /\ Range(limiters[r][p].queue) = Waiting(r, p)
      /\ Cardinality(InSlot(r, p)) <= getRateLimit(p)
      /\ Waiting(r, p) # {} => Cardinality(InSlot(r, p)) = getRateLimit(p)

\* every slot of the anthropic limiter is held by a call that has not returned,
\* an anthropic task waits, and a task of the openai group is already persisted
C11_Witness ==
  /\ pc[1] = "executing"
  /\ "anthropic" \in DOMAIN limiters[1]
  /\ Cardinality(InSlot(1, "anthropic")) = getRateLimit("anthropic")
  /\ \A i \in InSlot(1, "anthropic") : tasks[1][i].phase = "evaluate"
  /\ Waiting(1, "anthropic") # {}
  /\ \E k \in 1..Len(tasks[1]) :
       /\ tasks[1][k].group = "openai"
       /\ tasks[1][k].phase = "settled"
       /\ tasks[1][k].settled.success
       /\ Cardinality(Rows(1, k)) = 1

\* the number of active judges assigned to answer a
ActiveJudgeCount(a) ==
  Cardinality({j \in Judges : <<a, j>> \in answer_judges /\ judges[j].is_active})

RECURSIVE SumActiveJudgeCounts(_)
SumActiveJudgeCounts(S) ==
  IF S = {} THEN 0
  ELSE LET a == CHOOSE x \in S : TRUE
       IN ActiveJudgeCount(a) + SumActiveJudgeCounts(S \ {a})

\* C12: when buildEvaluationTasks returns, the number of tasks is the sum, over
\* the answers of the queue, of the number of active judges assigned to the
\* answer, and every task is an assignment of an answer of the queue to an
\* active judge: inactive judges and answers outside the queue give no task.
C12_TaskCount ==
  [][\A r \in Runs :
       (pc[r] = "assignments" /\ pc'[r] \in {"grouping", "returned"}) =>
         /\ Len(tasks'[r]) = SumActiveJudgeCounts(answer_queues)
         /\ \A i \in 1..Len(tasks'[r]) :
              /\ tasks'[r][i].answer_id \in answer_queues
              /\ <<tasks'[r][i].answer_id, tasks'[r][i].judge_id>> \in answer_judges
              /\ judges[tasks'[r][i].judge_id].is_active
         /\ \A i, k \in 1..Len(tasks'[r]) :
              TaskOf(tasks'[r][i]) = TaskOf(tasks'[r][k]) => i = k]_vars

\* one task was built for a queue of one answer that has an active and an
\* inactive judge, while the inactive judge is also assigned to an answer
\* outside the queue
C12_Witness ==
  /\ pc[1] = "grouping"
  /\ Len(tasks[1]) = 1
  /\ edits = 0
  /\ answer_queues = {"A2"}
  /\ answer_judges = {<<"A1", "J2">>, <<"A2", "J1">>, <<"A2", "J2">>}
  /\ ~judges["J2"].is_active

\* the number of tasks groupTasksByProvider put in the group of provider p
GroupSize(r, p) ==
  IF \E k \in 1..Len(tasksByProvider[r]) : tasksByProvider[r][k].provider = p
  THEN Len(GroupOf(r, p))
  ELSE 0

\* C13, as stated: for the queue of three answers (two with one active openai
\* judge, one with an active openai and an active anthropic judge) 3 tasks are
\* built, 2 go to the openai limiter, 1 to the anthropic limiter, and the
\* summary has total = 3.
C13_ScenarioThreeTasks ==
  pc[1] = "returned" =>
    /\ Len(tasks[1]) = 3
    /\ GroupSize(1, "openai") = 2
    /\ GroupSize(1, "anthropic") = 1
    /\ summary[1].total = 3

\* C13, amended: for that queue 4 tasks are built (1 + 1 + 2); once the tasks
\* are grouped, 3 are in the openai group and 1 in the anthropic group; and
\* every summary returned has total = 4.
C13_ScenarioFourTasks ==
  /\ pc[1] \in {"grouping", "executing", "returned"} => Len(tasks[1]) = 4
  /\ pc[1] \in {"executing", "returned"} =>
       /\ GroupSize(1, "openai") = 3
       /\ GroupSize(1, "anthropic") = 1
       /\ Len(started[1]["openai"]) + Len(limiters[1]["openai"].queue) = 3
       /\ Len(started[1]["anthropic"]) + Len(limiters[1]["anthropic"].queue) = 1
  /\ pc[1] = "returned" => summary[1].total = 4

\* the run of the scenario returned a summary with every task completed
C13_Witness ==
  /\ pc[1] = "returned"
  /\ answer_queues = {"A1", "A2", "A3"}
  /\ summary[1].total = 4
  /\ summary[1].completed = 4

\* the queue has no answer that is assigned to an active judge
NoActiveAssignment == \A a \in answer_queues : ActiveJudgeCount(a) = 0

\* a lookup of fetchEvaluationData failed
SetupFailure(message) ==
  message # <<>> /\ message[1] \in {"Failed to fetch answers: ", "Failed to fetch judges: "}

\* C14: when the queue has no answers, or has answers but no assignment to an
\* active judge (and no judge is edited meanwhile), runEvaluations builds no
\* task, fetches no judge, makes no provider call and inserts no row, and what
\* it returns is {total: 0, completed: 0, failed: 0, errors: []}; it throws only
\* when one of its lookups failed.
C14_NothingToEvaluate ==
  \A r \in Runs : (edits = 0 /\ NoActiveAssignment) =>
    /\ pc[r] \notin {"grouping", "executing"}
    /\ tasks[r] = <<>>
    /\ tasksByProvider[r] = <<>>
    /\ limiters[r] = NoLimiters
    /\ evaluations = {}
    /\ pc[r] = "returned" => summary[r] = [total |-> 0, completed |-> 0, failed |-> 0,
                                         errors |-> <<>>]
    /\ pc[r] = "thrown" => SetupFailure(thrown[r])

\* a run returned for a queue whose only assignment is to an inactive judge
C14_Witness ==
  /\ pc[1] = "returned"
  /\ edits = 0
  /\ NoActiveAssignment
  /\ \E aj \in answer_judges : aj[1] \in answer_queues
  /\ summary[1].total = 0

\* C15: for each adapter, when the model output holds a valid JSON object with
\* a verdict member, whatever prose surrounds it, the adapter's result has the
\* verdict of the first JSON object of the output, and its reasoning when the
\* object has a non-empty one, not a verdict found among keywords.
C15_JsonVerdictWins ==
  (exec.pc = "done" /\ exec.outcome.kind = "text") =>
    LET text == exec.outcome.text
        first == Min(Positions(text, "{"))
        closes == {j \in Positions(text, "}") : j > first}
        object == SubSeq(text, first, Min(closes))
    IN (/\ Positions(text, "{") # {}
        /\ closes # {}
        /\ JsonParses(object)
        /\ Field(object, "verdict") # Null) =>
          /\ exec.parsed.verdict = Field(object, "verdict")
          /\ Truthy(Field(object, "reasoning")) =>
                exec.parsed.reasoning = Field(object, "reasoning")

\* C16: whenever JSON extraction does not succeed on a model output (no
\* brace-delimited substring, or one that does not parse as JSON), the adapter's
\* verdict is the one the keyword scan of the raw text gives, inconclusive only
\* when the text has no keyword, and the reasoning is the raw text.
C16_KeywordFallbackAfterJson ==
  (exec.pc = "done" /\ exec.outcome.kind = "text" /\ exec.parsed # NoResult) =>
    LET text == exec.outcome.text
        lowerText == toLowerCase(text)
        passWord == \E kw \in {"pass", "correct", "good"} : includes(lowerText, kw)
        failWord == \E kw \in {"fail", "incorrect", "bad"} : includes(lowerText, kw)
    IN ~(HasJsonMatch(text) /\ JsonParses(JsonMatch(text))) =>
         /\ exec.parsed.reasoning = Str(text)
         /\ exec.parsed.verdict.t = "string"
         /\ (exec.parsed.verdict.s = <<"inconclusive">>) <=> (~passWord /\ ~failWord)

\* C17: executeEvaluation for a judge whose provider is not registered (its
\* credential is absent, or the identifier is unknown) does not throw, builds
\* no prompt and calls no adapter, and returns verdict inconclusive with the
\* reasoning "Evaluation failed: Provider <id> is not configured or not
\* available".
C17_UnregisteredProvider ==
  (exec.pc # "off" /\ exec.provider \notin initializeProviders(env)) =>
    /\ exec.pc \in {"start", "done"}
    /\ exec.prompt = "none"
    /\ exec.parsed = NoResult
    /\ exec.pc = "done" =>
         exec.result =
           [verdict |-> Str(<<"inconclusive">>),
            reasoning |-> Str(<<"Evaluation failed: ", "Provider ", exec.provider,
                                " is not configured or not available">>)]

\* the executor returned for a judge of provider anthropic in a process that
\* has the OpenAI credential only
C17_Witness ==
  /\ exec.pc = "done"
  /\ exec.provider = "anthropic"
  /\ env = {"OPENAI_API_KEY"}
  /\ exec.result.verdict = Str(<<"inconclusive">>)

\* C18: the registry's list of available providers holds exactly the
\* identifiers whose credential was present at startup: an identifier is listed
\* if and only if isProviderAvailable is true for it, and if and only if
\* getProvider returns its adapter without failing.
C18_ListedIffRegistered ==
  {"getAvailableProviders", "isProviderAvailable", "getProvider"} \subseteq reg.done =>
    /\ (reg.provider \in reg.listed) <=> reg.available
    /\ (reg.provider \in reg.listed) <=> ~reg.getThrew

\* C19: for every provider identifier and every model string, the registry's
\* validateModel(id, model) (validateProviderConfig) gives the same boolean as
\* validateModel(model) of that provider's adapter.
C19_ValidateModelDelegates ==
  {"validateProviderConfig", "validateModel"} \subseteq reg.done =>
    reg.valid = reg.adapterValid

\* C20: with the environment variables the README names (OPENAI_API_KEY,
\* ANTHROPIC_API_KEY, GEMINI_API_KEY) set, each of the three providers is
\* registered at startup: isProviderAvailable is true for it and getProvider
\* returns its adapter, so a judge of provider gemini is not taken for
\* unconfigured.
C20_ReadmeEnvRegistersAll ==
  (/\ env = {"OPENAI_API_KEY", "ANTHROPIC_API_KEY", "GEMINI_API_KEY"}
   /\ reg.provider \in {"openai", "anthropic", "gemini"}
   /\ {"isProviderAvailable", "getProvider"} \subseteq reg.done) =>
    /\ reg.available
    /\ ~reg.getThrew

C22_IncorrectMeansFail ==
  (exec.pc = "done" /\ exec.outcome.kind = "text" /\ exec.parsed # NoResult) =>
    LET text == exec.outcome.text
        lowerText == toLowerCase(text)
    IN (/\ Positions(text, "{") = {}
        /\ Positions(lowerText, "incorrect") # {}
        /\ \A i \in 1..Len(lowerText) :
             lowerText[i] # "incorrect" =>
               KeywordsIn(lowerText[i]) \cap {"pass", "correct", "good"} = {}) =>
         /\ exec.parsed.verdict = Str(<<"fail">>)
         /\ exec.parsed.reasoning = Str(text)

\* C23: the executor's validation maps any adapter result as follows: a
\* verdict that is not pass, fail or inconclusive gives inconclusive with an
\* explanatory note put before the original reasoning; otherwise an empty or
\* whitespace-only reasoning gives the same verdict with the fixed placeholder
\* sentence; otherwise the result is returned unchanged.
C23_ValidationMapping ==
  (exec.pc = "done" /\ exec.parsed # NoResult) =>
    LET given == exec.parsed
        allowed == /\ given.verdict.t = "string"
                   /\ given.verdict.s \in {<<"pass">>, <<"fail">>, <<"inconclusive">>}
        blank == \A i \in 1..Len(given.reasoning.s) : given.reasoning.s[i] \in {" ", "\n"}
    IN IF ~allowed
       THEN exec.result =
              [verdict |-> Str(<<"inconclusive">>),
               reasoning |-> Str(<<"Invalid verdict received: ">> \o given.verdict.s
                                 \o <<". ">> \o given.reasoning.s)]
       ELSE IF blank
            THEN exec.result =
                   [verdict |-> given.verdict,
                    reasoning |-> Str(<<"No detailed reasoning provided by the judge.">>)]
            ELSE exec.result = given

\* C24: if the answers lookup or the active-assignment lookup of a run fails,
\* runEvaluations throws and returns no summary, and the run fetches no judge,
\* calls no adapter and inserts no Evaluation row.
C24_SetupFailureThrows ==
  \A r \in Runs : failedLookups[r] \cap {"answers", "assignments"} # {} =>
    /\ pc[r] = "thrown"
    /\ SetupFailure(thrown[r])
    /\ summary[r] = NoSummary
    /\ tasks[r] = <<>>
    /\ tasksByProvider[r] = <<>>
    /\ limiters[r] = NoLimiters
    /\ \A e \in evaluations : e.evaluation_id[1] # r

\* the assignments lookup failed for a queue that has answers
C24_Witness ==
  /\ pc[1] = "thrown"
  /\ "assignments" \in failedLookups[1]
  /\ answer_queues # {}
  /\ thrown[1] = <<"Failed to fetch judges: ", "connection lost">>

\* C25: for every judge instruction text, also one with json, verdict,
\* response, format or ignore in it, the system prompt a PromptBuilder builds
\* is the instruction text followed by the fixed base instruction block: the
\* base block is never left out because of what the instruction says.
C25_BaseBlockAlwaysAppended ==
  pb.pc = "built" =>
    pb.systemPrompt =
      pb.judgeCustomPrompt \o <<"\n\n", "You are an AI judge evaluating submissions. ...">>

\* the tasks the limiter of group p has started and that have not settled
Holding(r, p) == {i \in Range(started[r][p]) : tasks[r][i].phase # "settled"}

JudgeFetchFailure(error) == error # <<>> /\ error[1] = "Failed to fetch judge "

\* C26: a task holds a slot of its limiter for its whole critical section:
\* every task whose judge fetch, adapter call or insert is under way was
\* started by its group's limiter and is counted in the limiter's active
\* count, and a task has given its slot back only once its insert succeeded
\* (its row is there) or failed, or its judge fetch threw.
C26_SlotHeldThroughInsert ==
  \A r \in Runs : \A p \in DOMAIN limiters[r] :
    /\ limiters[r][p].activeCount = Cardinality(Holding(r, p))
    /\ \A i \in 1..Len(tasks[r]) :
         (tasks[r][i].group = p /\ tasks[r][i].phase \in {"getJudge", "evaluate", "insert"}) =>
           i \in Holding(r, p)
    /\ \A i \in Range(started[r][p]) \ Holding(r, p) :
         \/ tasks[r][i].settled.success /\ Cardinality(Rows(r, i)) = 1
         \/ StoreFailure(tasks[r][i].settled.error) /\ Rows(r, i) = {}
         \/ JudgeFetchFailure(tasks[r][i].settled.error) /\ Rows(r, i) = {}
    /\ \A i \in Holding(r, p) : Rows(r, i) = {}

\* a task's insert is under way while another task of its group waits for the
\* slot the first one still holds
C26_Witness ==
  \E p \in DOMAIN limiters[1] :
    /\ Waiting(1, p) # {}
    /\ Cardinality(Holding(1, p)) = getRateLimit(p)
    /\ \A i \in Holding(1, p) : tasks[1][i].phase = "insert"

\* C27: every adapter call made to a provider during a run is made by a task
\* that holds a slot of that provider's limiter of the run, also when the
\* judge's provider is edited between the grouping and the task's execution.
C27_CallUnderItsProvidersLimiter ==
  \A r \in Runs : \A i \in 1..Len(tasks[r]) :
    tasks[r][i].phase = "evaluate" =>
      /\ tasks[r][i].judge.provider \in DOMAIN limiters[r]
      /\ i \in Holding(r, tasks[r][i].judge.provider)

\* C28: a failure of the attachments lookup neither aborts the run nor is
\* reported: the run goes on with an empty attachment map, it throws only for
\* a failed assignments lookup or judge fetch, and the summary it returns
\* counts every task and lists only errors of the tasks' own steps.
C28_AttachmentFailureIgnored ==
  \A r \in Runs : "attachments" \in failedLookups[r] =>
    /\ pc[r] \in {"assignments", "grouping", "executing", "returned", "thrown"}
    /\ attachmentsByAnswer[r] = {}
    /\ pc[r] = "thrown" =>
         /\ thrown[r] # <<>>
         /\ thrown[r][1] \in {"Failed to fetch judges: ", "Failed to fetch judge "}
    /\ pc[r] = "returned" =>
         /\ summary[r].total = Len(tasks[r])
         /\ \A i \in 1..Len(tasks[r]) : tasks[r][i].phase = "settled"
         /\ summary[r].completed =
              Cardinality({i \in 1..Len(tasks[r]) : Cardinality(Rows(r, i)) = 1})
         /\ \A k \in 1..Len(summary[r].errors) :
              \/ StoreFailure(summary[r].errors[k].error)
              \/ JudgeFetchFailure(summary[r].errors[k].error)

\* a run whose attachments lookup failed returned with the task of the answer
\* that has an attachment in the data store completed
C28_Witness ==
  /\ pc[1] = "returned"
  /\ "attachments" \in failedLookups[1]
  /\ "A1" \in attachments \cap answer_queues
  /\ summary[1].completed = summary[1].total
  /\ summary[1].total >= 1

\* C29: in every returned summary the errors list has exactly one entry per
\* failed task: its length is the failed count, no task is in it twice, every
\* task that failed is in it and no task counted as completed is.
C29_OneErrorPerFailedTask ==
  \A r \in Runs : pc[r] = "returned" =>
    LET errors == summary[r].errors
        failedTasks == {i \in 1..Len(tasks[r]) : ~tasks[r][i].settled.success}
    IN /\ Len(errors) = summary[r].failed
       /\ \A k, m \in 1..Len(errors) : errors[k].task = errors[m].task => k = m
       /\ {errors[k].task : k \in 1..Len(errors)} = {TaskOf(tasks[r][i]) : i \in failedTasks}
       /\ Cardinality(failedTasks) = summary[r].failed
       /\ \A k \in 1..Len(errors) : errors[k].error # <<>>

\* a summary with two failed tasks and a completed one
C29_Witness ==
  /\ pc[1] = "returned"
  /\ summary[1].failed = 2
  /\ summary[1].completed = 1
  /\ Len(summary[1].errors) = 2

\* C30: the validation step is idempotent on results with string verdict and
\* reasoning: validating a validated result returns it unchanged, validation
\* does not throw on them, and a result that is well-formed already (allowed
\* verdict, non-blank reasoning) is returned unchanged by the first validation.
C30_ValidationIdempotent ==
  /\ exec.pc # "threw"
  /\ exec.pc = "revalidated" => exec.result = exec.parsed
  /\ (/\ exec.pc = "validated"
      /\ exec.parsed.verdict.s \in {<<"pass">>, <<"fail">>, <<"inconclusive">>}
      /\ \E i \in 1..Len(exec.parsed.reasoning.s) :
           exec.parsed.reasoning.s[i] \notin {" ", "\n"}) =>
        exec.result = exec.parsed

\* a result with a verdict that is not allowed was validated twice
C30_Witness ==
  /\ exec.pc = "revalidated"
  /\ exec.result.verdict = Str(<<"inconclusive">>)
  /\ exec.result.reasoning.s # <<>>
  /\ exec.result.reasoning.s[1] = "Invalid verdict received: "

====
